---- MODULE Spec2Model ----
(***************************************************************************)
(* Model of the Image component of ts/components/conversation/Image.tsx:   *)
(* the content selection of render, the click / key / close handlers, the  *)
(* animate flag driven by the host's focus query and focus / blur          *)
(* notifications, and the canvas that holds a captured frame of the live   *)
(* image.                                                                  *)
(***************************************************************************)
EXTENDS Integers, Sequences, FiniteSets, TLC

(* ------------------------------ bounds -------------------------------- *)
\* image resources a url prop can name: 1..MaxUrl (0 is the absent / empty url)
MaxUrl == 2
\* attachment objects a parent can pass: ids 1..MaxAtt (0 is an absent attachment)
MaxAtt == 1
\* host notifications in flight on the channel at once
MaxQueue == 2
\* component instances of the many-instance specification
MaxInstances == 2

VARIABLES
  instances,    \* the Image instances the parent constructed
  props,        \* props[i]: this.props of instance i
  phase,        \* phase[i]: "constructed", "mounted" or "unmounted"
  animate,      \* animate[i]: this.state.animate
  query,        \* query[i]: the getWindowIsFocused() promise of instance i
  img,          \* img[i]: the <img> element behind imageRef
  canvas,       \* canvas[i]: the resource whose frame the <canvas> holds, 0 = blank
  lastLoaded,   \* lastLoaded[i]: resource of the last load event since the pair mounted
  hostFocused,  \* whether the main window has focus
  channel,      \* focus / blur notifications sent by the host, not yet delivered
  listeners,    \* listeners[c]: the handlers registered with ipcRenderer on channel c
  last          \* what the last step did (its handler calls and their effects)

vars == <<instances, props, phase, animate, query, img, canvas, lastLoaded,
          hostFocused, channel, listeners, last>>

(* ------------------------------ props --------------------------------- *)
\* attachment.id = 0 stands for a missing attachment (undefined)
Attachments == [id : 0..MaxAtt, pending : BOOLEAN] \ {[id |-> 0, pending |-> TRUE]}
NoAttachment == [id |-> 0, pending |-> FALSE]
Urls == 0..MaxUrl

\* the props the handlers and the content selection read
Props == [attachment : Attachments, url : Urls, blurHash : BOOLEAN,
          onClick : BOOLEAN, onClickClose : BOOLEAN, closeButton : BOOLEAN]

\* the values KeyboardEvent.key takes: the space bar is " ", never "Space"
Keys == {"Enter", " ", "Tab", "a"}

\* const { pending } = attachment || { pending: true }
Pending(p) == IF p.attachment.id = 0 THEN TRUE ELSE p.attachment.pending

\* canClick without the pending test
canClickIgnoresPending(p) == p.onClick /\ p.url # 0

canClick(p) == p.onClick /\ ~Pending(p) /\ p.url # 0

(* ------------------------------ render -------------------------------- *)
\* the ternary with the blurHash branch tested before the url branch
ContentBlurHashFirst(p) ==
  IF Pending(p) THEN {"Loading"}
  ELSE IF p.blurHash THEN {"Blurhash"}
  ELSE IF p.url # 0 THEN {"canvas", "img"}
  ELSE {}

\* the nested ternary of render: the elements in the content slot
Content(p) ==
  IF Pending(p) THEN {"Loading"}
  ELSE IF p.url # 0 THEN {"canvas", "img"}
  ELSE IF p.blurHash THEN {"Blurhash"}
  ELSE {}

\* class names of the canvas / img pair
render(p, anim) ==
  [content       |-> Content(p),
   canvasVisible |-> ("canvas" \in Content(p)) /\ ~anim,
   imageVisible  |-> ("img" \in Content(p)) /\ anim,
   overlay       |-> canClick(p),
   closeButton   |-> p.closeButton]

Unrendered ==
  [content |-> {}, canvasVisible |-> FALSE, imageVisible |-> FALSE,
   overlay |-> FALSE, closeButton |-> FALSE]

Dom(i) == IF phase[i] = "mounted" THEN render(props[i], animate[i]) ELSE Unrendered

\* canvasRef.current and imageRef.current are set while the pair is mounted
HasPair(i) == phase[i] = "mounted" /\ {"canvas", "img"} \subseteq Content(props[i])

(* --------------------------- the <img> element ------------------------ *)
\* state "none": no element (imageRef.current is null); "unavailable": no image
\* data yet; "available": res is decoded and shown; "broken": the request failed.
\* loading: a request for the current src is in flight.
NoImg == [state |-> "none", res |-> 0, loading |-> FALSE]
FreshImg == [state |-> "unavailable", res |-> 0, loading |-> TRUE]

\* React sets src={url} on the mounted element: the browser starts a request for
\* the new url and keeps showing an available image until that request ends
Resrc(e) ==
  [state |-> IF e.state = "available" THEN "available" ELSE "unavailable",
   res |-> IF e.state = "available" THEN e.res ELSE 0,
   loading |-> TRUE]

(* ------------------- what one step's handlers did --------------------- *)
Quiet == [i \in instances |-> 0]

Ev(op, i) ==
  [op |-> op, inst |-> i, key |-> "",
   ran |-> Quiet, drew |-> Quiet, wrote |-> Quiet, threw |-> FALSE,
   was |-> animate,
   clicks |-> 0, clickArg |-> NoAttachment,
   closes |-> 0, closeArg |-> NoAttachment,
   prevented |-> FALSE, stopped |-> FALSE]

\* the state a handler reads and writes, threaded through the calls of one step
Begin(imgs) ==
  [animate |-> animate, canvas |-> canvas, img |-> imgs,
   ran |-> Quiet, drew |-> Quiet, wrote |-> Quiet, threw |-> FALSE]

\* this.setState({animate: v}): React applies the update to a mounted component
\* and drops it (with a warning) on an unmounted one
setState(i, st, v) ==
  LET s1 == [st EXCEPT !.wrote[i] = @ + 1]
  IN  IF phase[i] = "mounted" THEN [s1 EXCEPT !.animate[i] = v] ELSE s1

\* drawImage(imageElement, 0, 0, width, height): throws InvalidStateError on a
\* broken image, draws nothing while no image data is available
renderImageToCanvas(i, st) ==
  IF HasPair(i)
    THEN LET s1 == [st EXCEPT !.drew[i] = @ + 1]
         IN  IF s1.img[i].state = "broken" THEN [s1 EXCEPT !.threw = TRUE]
             ELSE IF s1.img[i].state = "available"
                    THEN [s1 EXCEPT !.canvas[i] = s1.img[i].res]
                    ELSE s1
    ELSE st

onMainWindowFocus(i, st) == setState(i, st, TRUE)

\* a blur handler that captures only when it leaves the Animated state
onMainWindowBlurOnTransition(i, st) ==
  LET s1 == IF st.animate[i] THEN renderImageToCanvas(i, st) ELSE st
  IN  IF s1.threw THEN s1 ELSE setState(i, s1, FALSE)

onMainWindowBlur(i, st) ==
  LET s1 == renderImageToCanvas(i, st)
  IN  IF s1.threw THEN s1 ELSE setState(i, s1, FALSE)

(* --------------------------- host channel ----------------------------- *)
Channels == {"main-window-focus", "main-window-blur"}

\* ipcRenderer.removeListener: drops the most recently added matching listener
RemoveListener(s, i) ==
  IF \E k \in 1..Len(s) : s[k] = i
    THEN LET k == CHOOSE k \in 1..Len(s) :
                    s[k] = i /\ \A m \in (k+1)..Len(s) : s[m] # i
         IN  SubSeq(s, 1, k - 1) \o SubSeq(s, k + 1, Len(s))
    ELSE s

Handler(i, c, st) ==
  IF c = "main-window-focus" THEN onMainWindowFocus(i, st) ELSE onMainWindowBlur(i, st)

\* EventEmitter.emit: the listeners run in registration order; a listener that
\* throws ends the emit, and the listeners after it are not called
RECURSIVE Emit(_, _, _)
Emit(ls, c, st) ==
  IF ls = <<>> \/ st.threw THEN st
  ELSE Emit(Tail(ls), c, Handler(Head(ls), c, [st EXCEPT !.ran[Head(ls)] = @ + 1]))

(* ------------------------- click / key handlers ----------------------- *)
handleClick(p, ev) ==
  IF ~canClick(p)
    THEN [ev EXCEPT !.prevented = TRUE, !.stopped = TRUE]
    ELSE IF p.onClick
           THEN [ev EXCEPT !.prevented = TRUE, !.stopped = TRUE,
                           !.clicks = @ + 1, !.clickArg = p.attachment]
           ELSE ev

handleKeyDown(p, key, ev) ==
  IF ~canClick(p)
    THEN [ev EXCEPT !.prevented = TRUE, !.stopped = TRUE]
    ELSE IF p.onClick /\ (key = "Enter" \/ key = "Space")
           THEN [ev EXCEPT !.prevented = TRUE, !.stopped = TRUE,
                           !.clicks = @ + 1, !.clickArg = p.attachment]
           ELSE ev

\* a close button behind the gate of the click handler
closeClickGated(p, ev) ==
  LET e1 == [ev EXCEPT !.prevented = TRUE, !.stopped = TRUE]
  IN  IF p.onClickClose /\ canClick(p)
        THEN [e1 EXCEPT !.closes = @ + 1, !.closeArg = p.attachment]
        ELSE e1

\* the inline onClick of the close button
closeClick(p, ev) ==
  LET e1 == [ev EXCEPT !.prevented = TRUE, !.stopped = TRUE]
  IN  IF p.onClickClose
        THEN [e1 EXCEPT !.closes = @ + 1, !.closeArg = p.attachment]
        ELSE e1

(* ------------------------------ actions ------------------------------- *)
\* the listeners componentDidMount registers
Subscribe(ls, i) == [c \in Channels |-> Append(ls[c], i)]

\* the listeners componentWillUnmount removes
Unsubscribe(ls, i) == [c \in Channels |-> RemoveListener(ls[c], i)]

\* first render and commit, then componentDidMount
componentDidMount(i) ==
  /\ phase[i] = "constructed"
  /\ phase' = [phase EXCEPT ![i] = "mounted"]
  /\ img' = [img EXCEPT ![i] = IF "img" \in Content(props[i]) THEN FreshImg ELSE NoImg]
  /\ listeners' = Subscribe(listeners, i)
  /\ query' = [query EXCEPT ![i] = [state |-> "asked", value |-> FALSE]]
  /\ last' = Ev("componentDidMount", i)
  /\ UNCHANGED <<instances, props, animate, canvas, lastLoaded, hostFocused, channel>>

\* componentWillUnmount, then React removes the elements and clears the refs
componentWillUnmount(i) ==
  /\ phase[i] = "mounted"
  /\ phase' = [phase EXCEPT ![i] = "unmounted"]
  /\ listeners' = Unsubscribe(listeners, i)
  /\ img' = [img EXCEPT ![i] = NoImg]
  /\ canvas' = [canvas EXCEPT ![i] = 0]
  /\ lastLoaded' = [lastLoaded EXCEPT ![i] = 0]
  /\ last' = Ev("componentWillUnmount", i)
  /\ UNCHANGED <<instances, props, animate, query, hostFocused, channel>>

\* the parent renders the mounted component with new props: the content slot is
\* reconciled (a pair that stays mounted keeps its canvas, a new pair starts blank)
SetProps(i, p) ==
  /\ phase[i] = "mounted"
  /\ p # props[i]
  /\ props' = [props EXCEPT ![i] = p]
  /\ LET had == "img" \in Content(props[i])
         has == "img" \in Content(p)
     IN  /\ img' = [img EXCEPT ![i] =
                      IF ~has THEN NoImg
                      ELSE IF ~had THEN FreshImg
                      ELSE IF p.url # props[i].url THEN Resrc(@) ELSE @]
         /\ canvas' = [canvas EXCEPT ![i] = IF had /\ has THEN @ ELSE 0]
         /\ lastLoaded' = [lastLoaded EXCEPT ![i] = IF had /\ has THEN @ ELSE 0]
  /\ last' = Ev("props", i)
  /\ UNCHANGED <<instances, phase, animate, query, hostFocused, channel, listeners>>

\* an <img> without onLoad: the load event captures nothing
ImageLoadWithoutCapture(i) ==
  /\ HasPair(i) /\ img[i].loading
  /\ img' = [img EXCEPT ![i] =
               [state |-> "available", res |-> props[i].url, loading |-> FALSE]]
  /\ last' = Ev("load", i)
  /\ lastLoaded' = [lastLoaded EXCEPT ![i] = props[i].url]
  /\ UNCHANGED <<instances, props, phase, animate, query, canvas, hostFocused,
                 channel, listeners>>

\* the request for src={url} succeeds: the load event runs onLoad={renderImageToCanvas}
ImageLoad(i) ==
  /\ HasPair(i) /\ img[i].loading
  /\ LET loaded == [img EXCEPT ![i] =
                      [state |-> "available", res |-> props[i].url, loading |-> FALSE]]
         st == renderImageToCanvas(i, Begin(loaded))
     IN  /\ img' = loaded
         /\ canvas' = st.canvas
         /\ animate' = st.animate
         /\ last' = [Ev("load", i) EXCEPT !.drew = st.drew, !.wrote = st.wrote,
                                          !.threw = st.threw]
  /\ lastLoaded' = [lastLoaded EXCEPT ![i] = props[i].url]
  /\ UNCHANGED <<instances, props, phase, query, hostFocused, channel, listeners>>

\* the request fails: the element is broken and onError={onError} runs
ImageError(i) ==
  /\ HasPair(i) /\ img[i].loading
  /\ img' = [img EXCEPT ![i] = [state |-> "broken", res |-> 0, loading |-> FALSE]]
  /\ last' = Ev("error", i)
  /\ UNCHANGED <<instances, props, phase, animate, query, canvas, lastLoaded,
                 hostFocused, channel, listeners>>

\* the main window gains or loses focus and the host sends the notification
HostFocusChange ==
  /\ Len(channel) < MaxQueue
  /\ hostFocused' = ~hostFocused
  /\ channel' = Append(channel,
                  IF hostFocused THEN "main-window-blur" ELSE "main-window-focus")
  /\ last' = Ev("host", 0)
  /\ UNCHANGED <<instances, props, phase, animate, query, img, canvas, lastLoaded,
                 listeners>>

\* the host answers window.getWindowIsFocused() with its focus state of that moment
HostAnswerQuery(i) ==
  /\ query[i].state = "asked"
  /\ query' = [query EXCEPT ![i] = [state |-> "replied", value |-> hostFocused]]
  /\ last' = Ev("answer", i)
  /\ UNCHANGED <<instances, props, phase, animate, img, canvas, lastLoaded,
                 hostFocused, channel, listeners>>

\* .then((isFocused) => this.setState({ animate: isFocused }))
QueryResolve(i) ==
  /\ query[i].state = "replied"
  /\ query' = [query EXCEPT ![i].state = "resolved"]
  /\ LET st == setState(i, Begin(img), query[i].value)
     IN  /\ animate' = st.animate
         /\ last' = [Ev("resolve", i) EXCEPT !.wrote = st.wrote]
  /\ UNCHANGED <<instances, props, phase, img, canvas, lastLoaded, hostFocused,
                 channel, listeners>>

\* ipcRenderer receives the oldest notification and emits it to its listeners
Deliver ==
  /\ channel # <<>>
  /\ LET c == Head(channel)
         st == Emit(listeners[c], c, Begin(img))
     IN  /\ animate' = st.animate
         /\ canvas' = st.canvas
         /\ last' = [Ev(c, 0) EXCEPT !.ran = st.ran, !.drew = st.drew,
                                     !.wrote = st.wrote, !.threw = st.threw]
  /\ channel' = Tail(channel)
  /\ UNCHANGED <<instances, props, phase, query, img, lastLoaded, hostFocused, listeners>>

\* handleClick is the overlay button's onClick and a public method of the class
HandleClick(i) ==
  /\ phase[i] = "mounted"
  /\ last' = handleClick(props[i], Ev("click", i))
  /\ UNCHANGED <<instances, props, phase, animate, query, img, canvas, lastLoaded,
                 hostFocused, channel, listeners>>

HandleKeyDown(i, key) ==
  /\ phase[i] = "mounted"
  /\ last' = handleKeyDown(props[i], key, [Ev("keydown", i) EXCEPT !.key = key])
  /\ UNCHANGED <<instances, props, phase, animate, query, img, canvas, lastLoaded,
                 hostFocused, channel, listeners>>

\* the close button is rendered only with the closeButton prop
CloseClick(i) ==
  /\ Dom(i).closeButton
  /\ last' = closeClick(props[i], Ev("close", i))
  /\ UNCHANGED <<instances, props, phase, animate, query, img, canvas, lastLoaded,
                 hostFocused, channel, listeners>>

(* --------------------------- specifications --------------------------- *)
\* the state after the parent constructed the instances of `insts`, each with
\* props of the set P
Constructed(insts, P) ==
  /\ instances = insts
  /\ props \in [insts -> P]
  /\ phase = [i \in insts |-> "constructed"]
  /\ animate = [i \in insts |-> TRUE]
  /\ query = [i \in insts |-> [state |-> "none", value |-> FALSE]]
  /\ img = [i \in insts |-> NoImg]
  /\ canvas = [i \in insts |-> 0]
  /\ lastLoaded = [i \in insts |-> 0]
  /\ hostFocused \in BOOLEAN
  /\ channel = <<>>
  /\ listeners = [c \in Channels |-> <<>>]
  /\ last = [op |-> "constructor", inst |-> 0, key |-> "",
             ran |-> [i \in insts |-> 0], drew |-> [i \in insts |-> 0],
             wrote |-> [i \in insts |-> 0], threw |-> FALSE,
             was |-> [i \in insts |-> TRUE],
             clicks |-> 0, clickArg |-> NoAttachment,
             closes |-> 0, closeArg |-> NoAttachment,
             prevented |-> FALSE, stopped |-> FALSE]

\* a tile without click handlers and close button
PlainProps == {p \in Props : ~p.onClick /\ ~p.onClickClose /\ ~p.closeButton}

\* a tile that shows the image / canvas pair
PairProps == {p \in PlainProps : ~Pending(p) /\ p.url # 0 /\ ~p.blurHash}

\* Spec: one instance; its life cycle, its image and the host's focus
Init == Constructed({1}, PlainProps)

Next ==
  \/ \E i \in instances : componentDidMount(i)
  \/ \E i \in instances : componentWillUnmount(i)
  \/ \E i \in instances : \E p \in PlainProps : SetProps(i, p)
  \/ \E i \in instances : ImageLoad(i)
  \/ \E i \in instances : ImageError(i)
  \/ HostFocusChange
  \/ \E i \in instances : HostAnswerQuery(i)
  \/ \E i \in instances : QueryResolve(i)
  \/ Deliver

Spec == Init /\ [][Next]_vars

\* SpecGate: one instance under every combination of props; the content
\* selection and the click, key and close handlers
InitGate == Constructed({1}, Props)

NextGate ==
  \/ \E i \in instances : componentDidMount(i)
  \/ \E i \in instances : \E p \in Props : SetProps(i, p)
  \/ \E i \in instances : HandleClick(i)
  \/ \E i \in instances : \E key \in Keys : HandleKeyDown(i, key)
  \/ \E i \in instances : CloseClick(i)

SpecGate == InitGate /\ [][NextGate]_vars

\* SpecMany: several instances on the one host channel
InitMany == Constructed(1..MaxInstances, PairProps)

NextMany ==
  \/ \E i \in instances : componentDidMount(i)
  \/ \E i \in instances : componentWillUnmount(i)
  \/ \E i \in instances : ImageLoad(i)
  \/ \E i \in instances : ImageError(i)
  \/ HostFocusChange
  \/ Deliver

SpecMany == InitMany /\ [][NextMany]_vars

(* ------------------------------- claims ------------------------------- *)
\* the interaction gate in the claims' words: a click handler is registered, the
\* attachment is not pending and a url is present
GateOpen(p) ==
  p.onClick /\ p.attachment.id # 0 /\ ~p.attachment.pending /\ p.url # 0

\* C1: for every combination of attachment, url and blurHash a mounted component
\* renders exactly one content representation, by strict priority: pending (or no
\* attachment) gives the Loading placeholder whatever url and blurHash are;
\* otherwise a url gives the canvas / img pair, never the blur-hash placeholder;
\* otherwise a blurHash gives the blur-hash placeholder; otherwise nothing.
C1_ContentByPriority ==
  \A i \in instances :
    phase[i] = "mounted" =>
      LET p == props[i]
          c == Dom(i).content
          ready == p.attachment.id # 0 /\ ~p.attachment.pending
      IN  /\ ~ready => c = {"Loading"}
          /\ (ready /\ p.url # 0) => c = {"canvas", "img"}
          /\ (ready /\ p.url = 0 /\ p.blurHash) => c = {"Blurhash"}
          /\ (ready /\ p.url = 0 /\ ~p.blurHash) => c = {}

C1_Witness ==
  \E i \in instances :
    /\ phase[i] = "mounted" /\ last.op = "props"
    /\ ~Pending(props[i]) /\ props[i].url # 0 /\ props[i].blurHash
    /\ Dom(i).content = {"canvas", "img"}

\* C2: every click delivered to handleClick invokes onClick exactly once, with the
\* attachment of the props, iff the gate is open; otherwise onClick is not invoked;
\* in both cases the event is consumed (default prevented, propagation stopped).
C2_ClickGate ==
  last.op = "click" =>
    LET p == props[last.inst]
    IN  /\ GateOpen(p) => last.clicks = 1 /\ last.clickArg = p.attachment
        /\ ~GateOpen(p) => last.clicks = 0
        /\ last.prevented /\ last.stopped

C2_Witness ==
  /\ last.op = "click" /\ last.clicks = 1
  /\ last.clickArg.id = MaxAtt /\ last.prevented /\ last.stopped

\* C3: with the canvas / img pair displayed, a delivered blur notification leaves
\* the controller Frozen (canvas visible, image hidden), a delivered focus
\* notification leaves it Animated (image visible, canvas not), and in every state
\* exactly one of the two elements is visible while both are mounted.
C3_BlurFreezesFocusResumes ==
  \A i \in instances :
    HasPair(i) =>
      /\ (last.op = "main-window-blur" /\ last.ran[i] > 0) =>
            ~animate[i] /\ Dom(i).canvasVisible /\ ~Dom(i).imageVisible
      /\ (last.op = "main-window-focus" /\ last.ran[i] > 0) =>
            animate[i] /\ Dom(i).imageVisible /\ ~Dom(i).canvasVisible
      /\ Dom(i).canvasVisible # Dom(i).imageVisible
      /\ {"canvas", "img"} \subseteq Dom(i).content

\* C4: with the gate open a key-down of Enter or of the space bar invokes onClick
\* exactly once with the attachment, a key-down of any other key does not invoke
\* it, and with the gate closed no key invokes it.
C4_KeyActivation ==
  last.op = "keydown" =>
    LET p == props[last.inst]
    IN  /\ (GateOpen(p) /\ last.key \in {"Enter", " "}) =>
              last.clicks = 1 /\ last.clickArg = p.attachment
        /\ (GateOpen(p) /\ last.key \notin {"Enter", " "}) => last.clicks = 0
        /\ ~GateOpen(p) => last.clicks = 0

\* C5: activating the close button invokes the close handler exactly once with the
\* attachment whenever one is registered, whatever pending, url and onClick are;
\* it never invokes onClick, and with no close handler nothing is invoked.
C5_CloseUngated ==
  last.op = "close" =>
    LET p == props[last.inst]
    IN  /\ p.onClickClose => last.closes = 1 /\ last.closeArg = p.attachment
        /\ ~p.onClickClose => last.closes = 0
        /\ last.clicks = 0

C5_Witness ==
  /\ last.op = "close" /\ last.closes = 1
  /\ Pending(props[last.inst]) /\ props[last.inst].url = 0

\* C6: in every quiescent state (the focus query has resolved and every
\* notification the host sent has been delivered) a mounted component is Animated
\* iff the main window has focus.
C6_QuiescentTracksFocus ==
  \A i \in instances :
    (phase[i] = "mounted" /\ query[i].state = "resolved" /\ channel = <<>>) =>
      (animate[i] <=> hostFocused)

C8_CaptureOncePerFreeze ==
  \A i \in instances :
    HasPair(i) =>
      /\ (last.was[i] /\ ~animate[i]) => last.drew[i] = 1
      /\ (~last.was[i] /\ animate[i]) => last.drew[i] = 0
      /\ (last.op \in Channels /\ last.was[i] = animate[i]) => last.drew[i] = 0
      /\ last.drew[i] > 0 => (last.op = "load" \/ (last.was[i] /\ ~animate[i]))

\* C8 as amended: with the pair mounted every run of the blur handler executes the
\* capture exactly once, whether or not the controller was Animated before; the
\* focus handler and the resolution of the focus query never execute it; all other
\* captures come from load events, one per load.
C8_CaptureOncePerBlur ==
  \A i \in instances :
    HasPair(i) =>
      /\ (last.op = "main-window-blur" /\ last.ran[i] > 0) =>
            last.ran[i] = 1 /\ last.drew[i] = 1
      /\ last.op \in {"main-window-focus", "resolve"} => last.drew[i] = 0
      /\ last.op = "load" /\ last.inst = i => last.drew[i] = 1
      /\ last.drew[i] > 0 =>
            \/ last.op = "load" /\ last.inst = i
            \/ last.op = "main-window-blur" /\ last.ran[i] = 1

C8_Witness ==
  \E i \in instances :
    /\ HasPair(i) /\ last.op = "main-window-blur"
    /\ ~last.was[i] /\ ~animate[i] /\ last.drew[i] = 1

\* the number of times instance i is registered on channel c
Registered(c, i) == Cardinality({k \in 1..Len(listeners[c]) : listeners[c][k] = i})

\* C9: a mounted instance holds exactly one subscription of its focus handler and
\* one of its blur handler, an instance that is not mounted holds none, and every
\* delivered notification runs the matching handler of each mounted instance
\* exactly once and of no other instance.
C9_ListenerLifecycle ==
  \A i \in instances :
    /\ \A c \in Channels :
         Registered(c, i) = IF phase[i] = "mounted" THEN 1 ELSE 0
    /\ last.op \in Channels =>
         last.ran[i] = IF phase[i] = "mounted" THEN 1 ELSE 0

\* C10: after an instance is unmounted no step writes its focus state or attempts
\* a frame capture for it.
C10_NoWriteAfterUnmount ==
  \A i \in instances :
    phase[i] = "unmounted" => last.wrote[i] = 0 /\ last.drew[i] = 0

====
